---- MODULE Spec2Model ----
(***************************************************************************)
(* Model of cpp/setup.py: the CMakeBuild.build_extension build driver and  *)
(* the argument list it resolves for the external build tool.              *)
(*                                                                         *)
(* Text that the code inspects character by character (paths, library      *)
(* names) is a sequence of one-character strings; Str turns it into the    *)
(* string that is formatted into a flag.                                   *)
(***************************************************************************)
EXTENDS Integers, Sequences, FiniteSets, TLC

(***************************************************************************)
(* Bounds of the model.                                                    *)
(***************************************************************************)
MaxPathLen == 3
MaxExitCode == 2
MaxRuns == 2

(***************************************************************************)
(* The state.                                                              *)
(***************************************************************************)
VARIABLES
    environ,            \* os.environ of the running setup.py process
    cwd,                \* its working directory
    ext_fullpath,       \* self.get_ext_fullpath(ext.name)
    debug,              \* self.debug
    sys,                \* sys.executable and sys.version_info
    fs,                 \* the kind of each path the code looks at
    staging,            \* the staging directory: times created, files in it
    ext,                \* the CMakeExtension of ext_modules
    pc,                 \* where build_extension is
    output_directory,   \* the local of line 54, after line 59
    cmake_args,         \* the local of line 63
    build_args,         \* the local of line 85
    calls,              \* the child processes this run has run
    error,              \* the exception that left build_extension
    runs,               \* how many times setup.py has been run
    prev                \* the inputs and cmake_args of the run before

vars == <<environ, cwd, ext_fullpath, debug, sys, fs, staging, ext, pc,
          output_directory, cmake_args, build_args, calls, error, runs, prev>>

(***************************************************************************)
(* Text helpers.                                                           *)
(***************************************************************************)
RECURSIVE Str(_)
Str(cs) == IF cs = <<>> THEN "" ELSE Head(cs) \o Str(Tail(cs))

Sep == "/"

\* str.endswith(os.path.sep)
EndsWithSep(cs) == Len(cs) > 0 /\ cs[Len(cs)] = Sep

\* str.startswith("/"), which is posixpath.isabs
IsAbs(cs) == Len(cs) > 0 /\ cs[1] = Sep

\* p.rfind("/") + 1: the index of the last separator, 0 when there is none
RECURSIVE RFindSep(_)
RFindSep(cs) ==
    IF cs = <<>> THEN 0
    ELSE IF cs[Len(cs)] = Sep THEN Len(cs)
    ELSE RFindSep(SubSeq(cs, 1, Len(cs) - 1))

\* head.rstrip("/")
RECURSIVE RStripSep(_)
RStripSep(cs) ==
    IF EndsWithSep(cs) THEN RStripSep(SubSeq(cs, 1, Len(cs) - 1)) ELSE cs

AllSep(cs) == \A i \in DOMAIN cs : cs[i] = Sep

\* posixpath.dirname
Dirname(p) ==
    LET head == SubSeq(p, 1, RFindSep(p))
    IN  IF head # <<>> /\ ~AllSep(head) THEN RStripSep(head) ELSE head

\* posixpath.join(a, b)
Join(a, b) ==
    IF IsAbs(b) THEN b
    ELSE IF a = <<>> \/ EndsWithSep(a) THEN a \o b
    ELSE a \o <<Sep>> \o b

\* path.split("/"): cur is the component being read, acc the ones read
RECURSIVE SplitSep(_, _, _)
SplitSep(cs, cur, acc) ==
    IF cs = <<>> THEN Append(acc, cur)
    ELSE IF Head(cs) = Sep THEN SplitSep(Tail(cs), <<>>, Append(acc, cur))
    ELSE SplitSep(Tail(cs), Append(cur, Head(cs)), acc)

Dot == <<".">>
DotDot == <<".", ".">>

\* the component loop of posixpath.normpath
RECURSIVE NormComps(_, _, _)
NormComps(comps, new_comps, initial_slashes) ==
    IF comps = <<>> THEN new_comps
    ELSE LET comp == Head(comps)
             rest == Tail(comps)
         IN  IF comp = <<>> \/ comp = Dot
               THEN NormComps(rest, new_comps, initial_slashes)
             ELSE IF \/ comp # DotDot
                     \/ (initial_slashes = 0 /\ new_comps = <<>>)
                     \/ (new_comps # <<>> /\ new_comps[Len(new_comps)] = DotDot)
               THEN NormComps(rest, Append(new_comps, comp), initial_slashes)
             ELSE IF new_comps # <<>>
               THEN NormComps(rest, SubSeq(new_comps, 1, Len(new_comps) - 1),
                              initial_slashes)
             ELSE NormComps(rest, new_comps, initial_slashes)

\* "/".join(comps)
RECURSIVE JoinSep(_)
JoinSep(comps) ==
    IF comps = <<>> THEN <<>>
    ELSE IF Len(comps) = 1 THEN comps[1]
    ELSE comps[1] \o <<Sep>> \o JoinSep(Tail(comps))

\* posixpath.normpath
Normpath(path) ==
    IF path = <<>> THEN Dot
    ELSE LET initial_slashes ==
                 IF ~IsAbs(path) THEN 0
                 ELSE IF Len(path) >= 2 /\ path[2] = Sep
                         /\ ~(Len(path) >= 3 /\ path[3] = Sep)
                   THEN 2
                 ELSE 1
             joined == JoinSep(NormComps(SplitSep(path, <<>>, <<>>), <<>>,
                                         initial_slashes))
             out == [i \in 1..initial_slashes |-> Sep] \o joined
         IN  IF out = <<>> THEN Dot ELSE out

\* posixpath.abspath, in working directory wd
Abspath(path, wd) == Normpath(IF IsAbs(path) THEN path ELSE Join(wd, path))

(***************************************************************************)
(* str.upper on the characters that occur in library names.                *)
(***************************************************************************)
LowerCase == <<"a", "b", "c", "d", "e", "f", "g", "h", "i", "j", "k", "l", "m", "n", "o", "p", "q", "r", "s", "t", "u", "v", "w", "x", "y", "z">>
UpperCase == <<"A", "B", "C", "D", "E", "F", "G", "H", "I", "J", "K", "L", "M", "N", "O", "P", "Q", "R", "S", "T", "U", "V", "W", "X", "Y", "Z">>

UpperChar(c) ==
    IF \E i \in DOMAIN LowerCase : LowerCase[i] = c
      THEN UpperCase[CHOOSE i \in DOMAIN LowerCase : LowerCase[i] = c]
      ELSE c

Upper(cs) == [i \in DOMAIN cs |-> UpperChar(cs[i])]

(***************************************************************************)
(* Module-level data of setup.py.                                          *)
(***************************************************************************)
PRE_DOWNLOADED_MUJOCO_TAR == "/deps/mujoco-3.1.6-linux-x86_64.tar.gz"

\* the dict literal, in insertion order
PRE_DOWNLOADED_SOURCE_DIRS ==
    <<
       [libname |-> <<"a", "b", "s", "e", "i", "l", "-", "c", "p", "p">>,
        dirname |-> "/deps/abseil-cpp_c2435f8342c2d0ed8101cb43adfd605fdc52dca2"],
       [libname |-> <<"o", "s", "q", "p", "-", "c", "p", "p">>,
        dirname |-> "/deps/osqp-cpp_43433736334d6b515ea4b0247156fea9e56c0d3f"],
       [libname |-> <<"o", "s", "q", "p">>,
        dirname |-> "/deps/osqp_0baddd36bd57ec1cace0a52c6dd9663e8f16df0a"],
       [libname |-> <<"p", "y", "b", "i", "n", "d", "1", "1">>,
        dirname |-> "/deps/pybind11_914c06fb252b6cc3727d0eedab6736e88a3fcb01"],
       [libname |-> <<"g", "o", "o", "g", "l", "e", "t", "e", "s", "t">>,
        dirname |-> "/deps/googletest_e2239ee6043f73722e7aa812a459f54a28552929"]
    >>

DepDirs == {PRE_DOWNLOADED_SOURCE_DIRS[i].dirname : i \in DOMAIN PRE_DOWNLOADED_SOURCE_DIRS}

\* a slip: a set in place of the dict, iterated in the order of the
\* process's string hashing, which differs from one process to the next
Items_HashOrder(table) ==
    IF runs % 2 = 1 THEN table
    ELSE [i \in DOMAIN table |-> table[Len(table) + 1 - i]]

\* dict.items(): the entries in insertion order
Items(table) == table

(***************************************************************************)
(* The environment of a run: os.environ, the file system, the interpreter. *)
(***************************************************************************)
OverrideVar == "DM_ROBOTICS_USE_PREINSTALLED_LIBRARIES"
ParallelVar == "CMAKE_BUILD_PARALLEL_LEVEL"
CmakeExeVar == "CMAKE_EXE"
EnvNames == {OverrideVar, ParallelVar, CmakeExeVar}

\* Python's None, distinct from every value a variable can hold
None == "<None>"

\* os.environ.get(name, default)
EnvironGet(env, name, default) ==
    IF name \in DOMAIN env THEN env[name] ELSE default

\* self.build_temp, the staging directory setuptools hands to the command
BuildTemp == "build/temp.linux-x86_64-cpython-312"

\* a slip: os.path.exists where os.path.isdir is meant
IsDir_Exists(files, path) == files[path] # "absent"

\* os.path.isdir and os.path.exists on a file system files: path -> kind
IsDir(files, path) == files[path] = "dir"
Exists(files, path) == files[path] # "absent"

(***************************************************************************)
(* Lines 50-87: the argument lists.                                        *)
(***************************************************************************)
\* a slip: a default other than None makes the test always true
UsePreinstalledLibs_DefaultEmpty(env) == EnvironGet(env, OverrideVar, "") # None

UsePreinstalledLibs(env) == EnvironGet(env, OverrideVar, None) # None

\* a slip: the separator appended without the endswith test
NormalizeOutputDirectory_AlwaysAppends(output_dir) == output_dir \o <<Sep>>

\* lines 58-59
NormalizeOutputDirectory(output_dir) ==
    IF ~EndsWithSep(output_dir) THEN output_dir \o <<Sep>> ELSE output_dir

\* lines 54-59
OutputDirectory(fullpath, wd) ==
    NormalizeOutputDirectory(Abspath(Dirname(fullpath), wd))

BuildType(dbg) == IF dbg THEN "Debug" ELSE "Release"

\* lines 63-73
StructuralArgs(output_dir, interp, dbg) ==
    << "-DCMAKE_LIBRARY_OUTPUT_DIRECTORY=" \o Str(output_dir),
       "-DPYTHON_EXECUTABLE=" \o interp.executable,
       "-DDMR_PYTHON_VERSION=" \o ToString(interp.major) \o "."
                               \o ToString(interp.minor),
       "-DCMAKE_BUILD_TYPE=" \o BuildType(dbg),
       "-DDM_ROBOTICS_BUILD_TESTS=OFF",
       "-DDM_ROBOTICS_BUILD_WHEEL=True",
       "--log-level=VERBOSE" >>

MujocoTarFlag == "-DDM_ROBOTICS_MUJOCO_TAR=" \o PRE_DOWNLOADED_MUJOCO_TAR
DisconnectedFlag == "-DFETCHCONTENT_FULLY_DISCONNECTED:BOOL=TRUE"
SystemEigenFlag == "-DDM_ROBOTICS_USE_SYSTEM_Eigen3:BOOL=TRUE"

\* a slip: the last two appends exchanged
FixedOverrideArgs_Swapped == <<MujocoTarFlag, SystemEigenFlag, DisconnectedFlag>>

\* lines 76-78
FixedOverrideArgs == <<MujocoTarFlag, DisconnectedFlag, SystemEigenFlag>>

\* line 83
SourceDirFlag(item) ==
    "-DFETCHCONTENT_SOURCE_DIR_" \o Str(Upper(item.libname)) \o ":STRING="
                                 \o item.dirname

\* lines 80-83
RECURSIVE SourceDirFlags(_, _)
SourceDirFlags(items, files) ==
    IF items = <<>> THEN <<>>
    ELSE (IF IsDir(files, Head(items).dirname)
            THEN <<SourceDirFlag(Head(items))>>
            ELSE <<>>)
         \o SourceDirFlags(Tail(items), files)

\* lines 63-83
CmakeArgs(output_dir, interp, dbg, use_preinstalled_libs, files) ==
    StructuralArgs(output_dir, interp, dbg)
    \o (IF use_preinstalled_libs
          THEN FixedOverrideArgs
               \o SourceDirFlags(Items(PRE_DOWNLOADED_SOURCE_DIRS), files)
          ELSE <<>>)

\* a slip: the default added without looking at the environment
BuildArgs_AlwaysJ4(env) == <<"-j4">>

\* lines 85-87
BuildArgs(env) == IF ParallelVar \notin DOMAIN env THEN <<"-j4">> ELSE <<>>

\* lines 37-43 and 147-152
CMakeExtension(env, wd) ==
    [name |-> "dm_robotics.controllers.cartesian_6d_to_joint_velocity_mapper",
     sourcedir |-> Str(Abspath(<<>>, wd)),
     cmake |-> EnvironGet(env, CmakeExeVar, "cmake")]

(***************************************************************************)
(* The inputs the model draws.                                             *)
(***************************************************************************)
PathChars == {Sep, "o", "."}

\* what get_ext_fullpath returns: a path that ends in a file name
ExtPaths ==
    {p \in UNION {[1..n -> PathChars] : n \in 1..MaxPathLen} : p[Len(p)] = "o"}

Cwds == {<<Sep>>, <<Sep, "w">>}

EnvValues(name) ==
    CASE name = OverrideVar -> {"", "1"}
      [] name = ParallelVar -> {"8"}
      [] name = CmakeExeVar -> {"cmake3"}

Environs ==
    {e \in UNION {[S -> {"", "1", "8", "cmake3"}] : S \in SUBSET EnvNames} :
        \A n \in DOMAIN e : e[n] \in EnvValues(n)}

Interpreters ==
    {[executable |-> "/usr/bin/python3", major |-> 3, minor |-> 8],
     [executable |-> "/opt/python/bin/python3.12", major |-> 3, minor |-> 12]}

Kinds == {"absent", "file", "dir"}
FileSystems == [DepDirs \cup {BuildTemp} -> Kinds]

\* a child's exit status: 0..MaxExitCode, or -9 when a signal killed it
ExitCodes == (0..MaxExitCode) \cup {-9}

NoError == [kind |-> "none", returncode |-> 0, cmd |-> <<>>]

\* what the argument list is resolved from
Inputs ==
    [ext_fullpath |-> ext_fullpath, cwd |-> cwd, debug |-> debug, sys |-> sys,
     override |-> UsePreinstalledLibs(environ),
     table |-> PRE_DOWNLOADED_SOURCE_DIRS,
     dirs |-> {d \in DepDirs : IsDir(fs, d)}]

InitOf(paths, cwds, envs, debugs, interps, filesystems) ==
    /\ environ \in envs
    /\ cwd \in cwds
    /\ ext_fullpath \in paths
    /\ debug \in debugs
    /\ sys \in interps
    /\ fs \in filesystems
    /\ staging = [created |-> 0,
                  files |-> IF IsDir(fs, BuildTemp) THEN {"CMakeCache.txt"} ELSE {}]
    /\ ext = CMakeExtension(environ, cwd)
    /\ pc = "Pending"
    /\ output_directory = <<>>
    /\ cmake_args = <<>>
    /\ build_args = <<>>
    /\ calls = <<>>
    /\ error = NoError
    /\ runs = 1
    /\ prev = <<>>

\* lines 50-89
Resolve ==
    /\ pc = "Pending"
    /\ output_directory' = OutputDirectory(ext_fullpath, cwd)
    /\ cmake_args' = CmakeArgs(output_directory', sys, debug,
                               UsePreinstalledLibs(environ), fs)
    /\ build_args' = BuildArgs(environ)
    /\ pc' = "Acquiring"
    /\ UNCHANGED <<environ, cwd, ext_fullpath, debug, sys, fs, staging, ext,
                   calls, error, runs, prev>>

\* a slip: the directory removed and made again on every run
AcquireStaging_Recreates ==
    /\ pc = "Acquiring"
    /\ fs' = [fs EXCEPT ![BuildTemp] = "dir"]
    /\ staging' = [created |-> staging.created + 1, files |-> {}]
    /\ pc' = "Configuring"
    /\ UNCHANGED <<environ, cwd, ext_fullpath, debug, sys, ext, error,
                   output_directory, cmake_args, build_args, calls, runs, prev>>

\* lines 91-92; os.makedirs creates the directory or raises OSError
AcquireStaging ==
    /\ pc = "Acquiring"
    /\ IF ~Exists(fs, BuildTemp)
         THEN \/ /\ fs' = [fs EXCEPT ![BuildTemp] = "dir"]
                 /\ staging' = [created |-> staging.created + 1, files |-> {}]
                 /\ pc' = "Configuring"
                 /\ error' = error
              \/ /\ pc' = "Failed"
                 /\ error' = [NoError EXCEPT !.kind = "OSError"]
                 /\ UNCHANGED <<fs, staging>>
         ELSE /\ pc' = "Configuring"
              /\ UNCHANGED <<fs, staging, error>>
    /\ UNCHANGED <<environ, cwd, ext_fullpath, debug, sys, ext,
                   output_directory, cmake_args, build_args, calls, runs, prev>>

\* a slip: subprocess.call, which returns the exit status and raises nothing
CheckCall_IgnoresExit(cmd, written, next_pc) ==
    /\ IsDir(fs, BuildTemp)
    /\ \E rc \in ExitCodes :
         /\ calls' = Append(calls, [cmd |-> cmd, cwd |-> BuildTemp,
                                    returncode |-> rc])
         /\ staging' = [staging EXCEPT !.files =
                          @ \cup (IF rc = 0 THEN written ELSE {})]
         /\ pc' = next_pc
         /\ error' = error

\* a slip: the failure raised with a fixed code in place of the child's
CheckCall_LosesCode(cmd, written, next_pc) ==
    /\ IsDir(fs, BuildTemp)
    /\ \E rc \in ExitCodes :
         /\ calls' = Append(calls, [cmd |-> cmd, cwd |-> BuildTemp,
                                    returncode |-> rc])
         /\ staging' = [staging EXCEPT !.files =
                          @ \cup (IF rc = 0 THEN written ELSE {})]
         /\ IF rc # 0
              THEN /\ pc' = "Failed"
                   /\ error' = [kind |-> "CalledProcessError",
                                returncode |-> 1, cmd |-> cmd]
              ELSE /\ pc' = next_pc
                   /\ error' = error

\* a slip: the tool started in the current directory, the staging directory
\* entered only afterwards
CheckCall_ChdirAfterStart(cmd, written, next_pc) ==
    \E rc \in ExitCodes :
       /\ calls' = Append(calls, [cmd |-> cmd, cwd |-> BuildTemp,
                                  returncode |-> rc])
       /\ staging' = staging
       /\ pc' = "Failed"
       /\ error' = IF IsDir(fs, BuildTemp)
                     THEN [kind |-> "CalledProcessError",
                           returncode |-> rc, cmd |-> cmd]
                     ELSE [NoError EXCEPT !.kind = "NotADirectoryError"]

\* subprocess.check_call(cmd, cwd=self.build_temp): the child cannot start in
\* a working directory that is no directory; otherwise it runs to its exit
\* status, and a non-zero one raises CalledProcessError(returncode, cmd)
CheckCall(cmd, written, next_pc) ==
    IF ~IsDir(fs, BuildTemp)
      THEN /\ pc' = "Failed"
           /\ error' = [NoError EXCEPT !.kind = "NotADirectoryError"]
           /\ UNCHANGED <<calls, staging>>
      ELSE \E rc \in ExitCodes :
             /\ calls' = Append(calls, [cmd |-> cmd, cwd |-> BuildTemp,
                                        returncode |-> rc])
             /\ staging' = [staging EXCEPT !.files =
                              @ \cup (IF rc = 0 THEN written ELSE {})]
             /\ IF rc # 0
                  THEN /\ pc' = "Failed"
                       /\ error' = [kind |-> "CalledProcessError",
                                    returncode |-> rc, cmd |-> cmd]
                  ELSE /\ pc' = next_pc
                       /\ error' = error

\* lines 95-96
Configure ==
    /\ pc = "Configuring"
    /\ CheckCall(<<ext.cmake>> \o cmake_args \o <<"-S", ext.sourcedir>>,
                 {"CMakeCache.txt"}, "Building")
    /\ UNCHANGED <<environ, cwd, ext_fullpath, debug, sys, fs, ext,
                   output_directory, cmake_args, build_args, runs, prev>>

\* lines 98-99
Build ==
    /\ pc = "Building"
    /\ CheckCall(<<ext.cmake, "--build", ".">> \o build_args,
                 {"cartesian_6d_to_joint_velocity_mapper.so"}, "Succeeded")
    /\ UNCHANGED <<environ, cwd, ext_fullpath, debug, sys, fs, ext,
                   output_directory, cmake_args, build_args, runs, prev>>

\* the environments a later run of setup.py may find: at most one variable
\* was set, unset or changed in between
EnvChanges(env) ==
    {e \in Environs :
        Cardinality({n \in EnvNames :
                        EnvironGet(e, n, None) # EnvironGet(env, n, None)}) <= 1}

\* lines 126-155: setup.py is run again after a build has ended; the module
\* is evaluated afresh and build_ext calls build_extension on the extension
Invoke ==
    /\ pc \in {"Succeeded", "Failed"}
    /\ runs < MaxRuns
    /\ \E env \in EnvChanges(environ) :
         /\ environ' = env
         /\ ext' = CMakeExtension(env, cwd)
    /\ prev' = <<[inputs |-> Inputs, cmake_args |-> cmake_args]>>
    /\ pc' = "Pending"
    /\ output_directory' = <<>>
    /\ cmake_args' = <<>>
    /\ build_args' = <<>>
    /\ calls' = <<>>
    /\ error' = NoError
    /\ runs' = runs + 1
    /\ UNCHANGED <<cwd, ext_fullpath, debug, sys, fs, staging>>

Next == Resolve \/ AcquireStaging \/ Configure \/ Build \/ Invoke

(***************************************************************************)
(* Specifications.  They share Next and differ in the inputs drawn: Spec   *)
(* draws every environment and staging state for one output path,          *)
(* SpecResolve every state of the local dependency directories, SpecPath   *)
(* every extension path and working directory.                             *)
(***************************************************************************)
SomeDeps == {[d \in DepDirs |-> "absent"], [d \in DepDirs |-> "dir"]}

WithDeps(deps, kinds) ==
    {f \in FileSystems : \E d \in deps : \E k \in kinds :
        /\ f[BuildTemp] = k
        /\ \A p \in DepDirs : f[p] = d[p]}

Init ==
    InitOf({<<"o", Sep, "o">>}, {<<Sep, "w">>}, Environs, BOOLEAN, Interpreters,
           WithDeps(SomeDeps, Kinds))

Spec == Init /\ [][Next]_vars

InitResolve ==
    InitOf({<<"o", Sep, "o">>}, {<<Sep, "w">>},
           {e \in Environs : CmakeExeVar \notin DOMAIN e}, {FALSE},
           {CHOOSE i \in Interpreters : i.minor = 8},
           WithDeps([DepDirs -> Kinds], {"absent"}))

SpecResolve == InitResolve /\ [][Next]_vars

InitPath ==
    InitOf(ExtPaths, Cwds, {e \in Environs : DOMAIN e \subseteq {ParallelVar}},
           BOOLEAN, {CHOOSE i \in Interpreters : i.minor = 12},
           WithDeps({[d \in DepDirs |-> "absent"]}, {"absent", "dir"}))

SpecPath == InitPath /\ [][Next]_vars

(***************************************************************************)
(* Vocabulary of the properties.                                           *)
(***************************************************************************)
Range(seq) == {seq[i] : i \in DOMAIN seq}

Resolved == pc # "Pending"

OverrideEnabled == OverrideVar \in DOMAIN environ

\* the flag each entry of the dependency table is to produce, written out
ExpectedSourceDirFlags ==
    <<
       "-DFETCHCONTENT_SOURCE_DIR_ABSEIL-CPP:STRING=/deps/abseil-cpp_c2435f8342c2d0ed8101cb43adfd605fdc52dca2",
       "-DFETCHCONTENT_SOURCE_DIR_OSQP-CPP:STRING=/deps/osqp-cpp_43433736334d6b515ea4b0247156fea9e56c0d3f",
       "-DFETCHCONTENT_SOURCE_DIR_OSQP:STRING=/deps/osqp_0baddd36bd57ec1cace0a52c6dd9663e8f16df0a",
       "-DFETCHCONTENT_SOURCE_DIR_PYBIND11:STRING=/deps/pybind11_914c06fb252b6cc3727d0eedab6736e88a3fcb01",
       "-DFETCHCONTENT_SOURCE_DIR_GOOGLETEST:STRING=/deps/googletest_e2239ee6043f73722e7aa812a459f54a28552929"
    >>

NumStructural == Len(StructuralArgs(<<>>, [executable |-> "", major |-> 0, minor |-> 0], FALSE))

\* the phase a command line belongs to
PhaseOf(cmd) ==
    IF Len(cmd) >= 2 /\ cmd[2] = "--build" THEN "Building" ELSE "Configuring"

\* the directory lines 54-55 compute, before lines 58-59 normalise it
GivenOutputDirectory == Abspath(Dirname(ext_fullpath), cwd)

\* the places of the dependency flags in the argument list
PlacesOf(flag) == {i \in DOMAIN cmake_args : cmake_args[i] = flag}

(***************************************************************************)
(* C1: in a run of build_extension the build tool's invocations are a      *)
(* prefix of <configure, build>: each happens at most once, the build call *)
(* only after the configure call returned 0, and nothing is invoked after  *)
(* a call that failed.                                                     *)
(***************************************************************************)
C1_InvocationsArePrefix ==
    /\ Len(calls) <= 2
    /\ Len(calls) >= 1 =>
         /\ PhaseOf(calls[1].cmd) = "Configuring"
         /\ calls[1].cmd[Len(calls[1].cmd) - 1] = "-S"
    /\ Len(calls) = 2 =>
         /\ PhaseOf(calls[2].cmd) = "Building"
         /\ calls[1].returncode = 0
    /\ \A i \in DOMAIN calls : calls[i].returncode # 0 => i = Len(calls)
    /\ pc = "Building" => Len(calls) = 1 /\ calls[1].returncode = 0
    /\ pc \in {"Pending", "Acquiring", "Configuring"} => calls = <<>>

C1_Witness == pc = "Succeeded" /\ Len(calls) = 2

(***************************************************************************)
(* C2: a non-zero exit of either phase ends the run in Failed with a       *)
(* CalledProcessError that carries the failed phase's command line and the *)
(* tool's exit code unchanged; a configure exit of 1 gives phase           *)
(* Configuring and code 1, and Succeeded is not reached.                   *)
(***************************************************************************)
C2_FailurePropagated ==
    /\ (\E i \in DOMAIN calls : calls[i].returncode # 0) =>
         LET last == calls[Len(calls)]
         IN  /\ pc = "Failed"
             /\ error.kind = "CalledProcessError"
             /\ error.returncode = last.returncode
             /\ error.cmd = last.cmd
             /\ PhaseOf(error.cmd) =
                  (IF Len(calls) = 1 THEN "Configuring" ELSE "Building")
    /\ (calls # <<>> /\ calls[1].returncode = 1) =>
         /\ Len(calls) = 1
         /\ pc = "Failed"
         /\ error.returncode = 1
         /\ PhaseOf(error.cmd) = "Configuring"
    /\ pc = "Succeeded" =>
         /\ error = NoError
         /\ \A i \in DOMAIN calls : calls[i].returncode = 0
    /\ error.kind = "CalledProcessError" =>
         calls # <<>> /\ calls[Len(calls)].returncode # 0

C2_Witness ==
    /\ pc = "Failed"
    /\ Len(calls) = 1
    /\ error.kind = "CalledProcessError"
    /\ error.returncode = 1

(***************************************************************************)
(* C3: without the override variable the argument list is the structural   *)
(* flags alone: no network-disable flag, no system-library flag and no     *)
(* dependency flag, whatever local directories exist.                      *)
(***************************************************************************)
C3_NoOverrideStructuralOnly ==
    (Resolved /\ ~OverrideEnabled) =>
        /\ Len(cmake_args) = NumStructural
        /\ DisconnectedFlag \notin Range(cmake_args)
        /\ SystemEigenFlag \notin Range(cmake_args)
        /\ Range(cmake_args) \cap Range(ExpectedSourceDirFlags) = {}

C3_Witness ==
    /\ Resolved
    /\ ~OverrideEnabled
    /\ \A d \in DepDirs : IsDir(fs, d)

(***************************************************************************)
(* C4 as stated: with the override variable set, exactly two fixed flags   *)
(* follow the structural flags, network-disable then system-library, so    *)
(* with no local directory the list is the structural flags and those two. *)
(***************************************************************************)
C4_TwoFixedFlags ==
    (Resolved /\ OverrideEnabled) =>
        /\ Len(cmake_args) >= NumStructural + 2
        /\ cmake_args[NumStructural + 1] = DisconnectedFlag
        /\ cmake_args[NumStructural + 2] = SystemEigenFlag
        /\ (\A d \in DepDirs : ~IsDir(fs, d)) =>
              Len(cmake_args) = NumStructural + 2

(***************************************************************************)
(* C4 amended: with the override variable set, exactly three fixed flags   *)
(* follow the structural flags: the pre-downloaded MuJoCo archive, then    *)
(* network-disable, then system-library; the dependency flags come after   *)
(* them, so with no local directory the list is the structural flags and   *)
(* those three.                                                            *)
(***************************************************************************)
C4_ThreeFixedFlags ==
    (Resolved /\ OverrideEnabled) =>
        /\ Len(cmake_args) >= NumStructural + 3
        /\ cmake_args[NumStructural + 1] =
             "-DDM_ROBOTICS_MUJOCO_TAR=/deps/mujoco-3.1.6-linux-x86_64.tar.gz"
        /\ cmake_args[NumStructural + 2] = DisconnectedFlag
        /\ cmake_args[NumStructural + 3] = SystemEigenFlag
        /\ \A i \in DOMAIN cmake_args :
             cmake_args[i] \in Range(ExpectedSourceDirFlags) =>
                i > NumStructural + 3
        /\ \A i \in DOMAIN cmake_args :
             i > NumStructural + 3 =>
                cmake_args[i] \in Range(ExpectedSourceDirFlags)
        /\ (\A d \in DepDirs : ~IsDir(fs, d)) =>
              Len(cmake_args) = NumStructural + 3

C4_Witness ==
    /\ Resolved
    /\ OverrideEnabled
    /\ \A d \in DepDirs : ~IsDir(fs, d)
    /\ Len(cmake_args) = NumStructural + 3

(***************************************************************************)
(* C5: with the override variable set, each dependency of the table has    *)
(* its flag (upper-cased name, the table's path) in the argument list      *)
(* exactly when its path is a directory, and then exactly once; the other  *)
(* dependencies do not change that, and resolution does not fail.          *)
(***************************************************************************)
C5_FlagIffDirectory ==
    (Resolved /\ OverrideEnabled) =>
        /\ \A k \in DOMAIN PRE_DOWNLOADED_SOURCE_DIRS :
             Cardinality(PlacesOf(ExpectedSourceDirFlags[k])) =
               (IF fs[PRE_DOWNLOADED_SOURCE_DIRS[k].dirname] = "dir" THEN 1 ELSE 0)
        /\ Cardinality({i \in DOMAIN cmake_args :
                          cmake_args[i] \in Range(ExpectedSourceDirFlags)}) =
             Cardinality({d \in DepDirs : fs[d] = "dir"})
        /\ pc = "Acquiring" => error = NoError

C5_Witness ==
    /\ pc = "Acquiring"
    /\ OverrideEnabled
    /\ fs[PRE_DOWNLOADED_SOURCE_DIRS[1].dirname] = "dir"
    /\ fs[PRE_DOWNLOADED_SOURCE_DIRS[2].dirname] = "file"
    /\ fs[PRE_DOWNLOADED_SOURCE_DIRS[3].dirname] = "absent"
    /\ Cardinality({d \in DepDirs : fs[d] = "dir"}) = 2

(***************************************************************************)
(* C6: the directory in the output-directory flag is the directory given   *)
(* with at most one separator appended, it ends with a separator, a        *)
(* directory that already ends with one is passed unchanged, and           *)
(* normalising it again changes nothing.                                   *)
(***************************************************************************)
C6_OutputDirectoryNormalized ==
    Resolved =>
        /\ output_directory \in
             {GivenOutputDirectory, GivenOutputDirectory \o <<Sep>>}
        /\ output_directory[Len(output_directory)] = Sep
        /\ (GivenOutputDirectory # <<>>
            /\ GivenOutputDirectory[Len(GivenOutputDirectory)] = Sep) =>
              output_directory = GivenOutputDirectory
        /\ NormalizeOutputDirectory(output_directory) = output_directory
        /\ cmake_args[1] =
             "-DCMAKE_LIBRARY_OUTPUT_DIRECTORY=" \o Str(output_directory)

C6_Witness ==
    /\ Resolved
    /\ GivenOutputDirectory = <<Sep>>
    /\ cmake_args[1] = "-DCMAKE_LIBRARY_OUTPUT_DIRECTORY=/"

\* what holds of the staging directory in every state
C7_StagingState ==
    /\ \A i \in DOMAIN calls : calls[i].cwd = BuildTemp
    /\ calls # <<>> => IsDir(fs, BuildTemp)
    /\ pc \in {"Configuring", "Building", "Succeeded"} => Exists(fs, BuildTemp)
    /\ staging.created <= 1

\* what every step does to the staging directory
C7_StagingStep ==
    /\ (pc = "Acquiring" /\ ~Exists(fs, BuildTemp)) =>
          \/ /\ pc' = "Configuring"
             /\ IsDir(fs', BuildTemp)
             /\ staging'.created = staging.created + 1
          \/ /\ pc' = "Failed"
             /\ error'.kind = "OSError"
    /\ (pc = "Acquiring" /\ Exists(fs, BuildTemp)) => pc' = "Configuring"
    /\ Exists(fs, BuildTemp) =>
          /\ fs'[BuildTemp] = fs[BuildTemp]
          /\ staging'.created = staging.created
          /\ staging.files \subseteq staging'.files

(***************************************************************************)
(* C7: acquiring the staging directory is idempotent over successive       *)
(* runs: an absent directory is created (or the run ends with the OSError  *)
(* of os.makedirs), an existing one lets the run go on and is neither      *)
(* recreated nor emptied, no step removes it, and every child process runs *)
(* with it as working directory.                                           *)
(***************************************************************************)
C7_StagingIdempotent == [](C7_StagingState) /\ [][C7_StagingStep]_vars

C7_Witness ==
    /\ runs = 2
    /\ pc = "Succeeded"
    /\ Len(calls) = 2
    /\ staging.created = 0
    /\ "CMakeCache.txt" \in staging.files

(***************************************************************************)
(* C8: the build call carries -j4 exactly when CMAKE_BUILD_PARALLEL_LEVEL  *)
(* is not in the environment; when it is, the build call has no            *)
(* parallelism argument at all; the configure call never carries -j4.      *)
(***************************************************************************)
C8_ParallelismFlag ==
    \A i \in DOMAIN calls :
        IF i = 2
          THEN /\ ("-j4" \in Range(calls[i].cmd)) <=> (ParallelVar \notin DOMAIN environ)
               /\ ParallelVar \in DOMAIN environ =>
                    calls[i].cmd = <<ext.cmake, "--build", ".">>
               /\ ParallelVar \notin DOMAIN environ =>
                    calls[i].cmd = <<ext.cmake, "--build", ".", "-j4">>
          ELSE "-j4" \notin Range(calls[i].cmd)

C8_Witness ==
    /\ Len(calls) = 2
    /\ ParallelVar \in DOMAIN environ
    /\ "-j4" \notin Range(calls[2].cmd)

(***************************************************************************)
(* C9: a run that ends with an error of configuration or of the staging    *)
(* directory (os.makedirs failing, the staging path being no directory)    *)
(* has invoked the build tool zero times.                                  *)
(***************************************************************************)
C9_AbortBeforeSubprocess ==
    (pc = "Failed" /\ error.kind # "CalledProcessError") =>
        /\ error.kind \in {"OSError", "NotADirectoryError"}
        /\ calls = <<>>

C9_Witness ==
    /\ pc = "Failed"
    /\ error.kind = "OSError"
    /\ calls = <<>>
    /\ ~Exists(fs, BuildTemp)

(***************************************************************************)
(* C10: two resolutions from identical inputs give the same argument list  *)
(* element for element; the structural flags are at the front in their     *)
(* fixed order and the dependency flags follow the order of the table.     *)
(***************************************************************************)
C10_Deterministic ==
    Resolved =>
        /\ (prev # <<>> /\ prev[1].inputs = Inputs) =>
              prev[1].cmake_args = cmake_args
        /\ Len(cmake_args) >= NumStructural
        /\ cmake_args[1] = "-DCMAKE_LIBRARY_OUTPUT_DIRECTORY=" \o Str(output_directory)
        /\ cmake_args[2] = "-DPYTHON_EXECUTABLE=" \o sys.executable
        /\ cmake_args[3] = (IF sys.minor = 8 THEN "-DDMR_PYTHON_VERSION=3.8"
                                             ELSE "-DDMR_PYTHON_VERSION=3.12")
        /\ cmake_args[4] = (IF debug THEN "-DCMAKE_BUILD_TYPE=Debug"
                                      ELSE "-DCMAKE_BUILD_TYPE=Release")
        /\ cmake_args[5] = "-DDM_ROBOTICS_BUILD_TESTS=OFF"
        /\ cmake_args[6] = "-DDM_ROBOTICS_BUILD_WHEEL=True"
        /\ cmake_args[7] = "--log-level=VERBOSE"
        /\ \A j, k \in DOMAIN ExpectedSourceDirFlags :
             \A a \in PlacesOf(ExpectedSourceDirFlags[j]) :
                \A b \in PlacesOf(ExpectedSourceDirFlags[k]) :
                   j < k => a < b

C10_Witness ==
    /\ Resolved
    /\ prev # <<>>
    /\ prev[1].inputs = Inputs
    /\ OverrideEnabled
    /\ \A d \in DepDirs : IsDir(fs, d)
    /\ Len(cmake_args) = NumStructural + 8

====
